---------------------------- MODULE Spec2Model ----------------------------
(***************************************************************************)
(* Brand-mention detection service (backend/server.js) and its page        *)
(* (frontend/pages/index.tsx).                                             *)
(*                                                                         *)
(* A JavaScript string is a sequence of one-character strings; the value   *)
(* undefined (an absent field, an unassigned variable) is the sequence     *)
(* Undefined, which no string equals.                                      *)
(***************************************************************************)
EXTENDS Integers, Sequences, FiniteSets, TLC

VARIABLES
    pc,                 \* position of the check-brand handler
    prompt,             \* req.body.prompt
    brandName,          \* req.body.brandName
    idx,                \* 1-based index in MODEL_OPTIONS of the candidate being awaited
    calls,              \* number of generateContent calls issued for the request
    invoked,            \* the models they were issued to, in order
    results,            \* what the candidates awaited so far resolved to, in order
    geminiResponse,     \* let geminiResponse (line 149)
    usedCannedResponse, \* let usedCannedResponse (line 150)
    modelUsed,          \* let modelUsed (line 151)
    success,            \* let success (line 156)
    response,           \* what was sent on res
    dPc,                \* position of a direct call of detectBrandMention
    dText,              \* its text argument
    dBrand,             \* its brandName argument
    dResult,            \* what it returned or that it threw
    entry,              \* the file that node runs
    apiKey,             \* process.env.GEMINI_API_KEY
    proc,               \* the process: starting, exited or listening
    healthServed,       \* number of GET /health requests answered
    reqs,               \* the locals of the handler's invocations that run side by side
    fResults,           \* the page's results state: the requests whose result is listed
    fLoading,           \* the page's loading state
    fError,             \* the page's error state
    fCaptured,          \* results as the handleSubmit in flight closed over it
    fSubmits,           \* number of requests the page has sent
    fCleared            \* the requests whose result was listed when clearResults ran

handlerVars ==
    <<pc, prompt, brandName, idx, calls, invoked, results, geminiResponse,
      usedCannedResponse, modelUsed, success, response>>

detectVars ==
    <<dPc, dText, dBrand, dResult>>

startVars ==
    <<entry, apiKey, proc, healthServed>>

concVars ==
    <<reqs>>

frontVars ==
    <<fResults, fLoading, fError, fCaptured, fSubmits, fCleared>>

vars ==
    <<pc, prompt, brandName, idx, calls, invoked, results, geminiResponse,
      usedCannedResponse, modelUsed, success, response,
      dPc, dText, dBrand, dResult,
      entry, apiKey, proc, healthServed, reqs,
      fResults, fLoading, fError, fCaptured, fSubmits, fCleared>>

----------------------------------------------------------------------------
(* JavaScript values and string operations                                 *)

Undefined ==
    <<"undefined">>

\* position: null
NullPosition ==
    -1

\* !v for v a string or undefined
Falsy(v) ==
    v = Undefined \/ v = <<>>

LowerMap ==
    ("A" :> "a") @@ ("B" :> "b") @@ ("C" :> "c") @@ ("D" :> "d") @@
    ("E" :> "e") @@ ("F" :> "f") @@ ("G" :> "g") @@ ("H" :> "h") @@
    ("I" :> "i") @@ ("J" :> "j") @@ ("K" :> "k") @@ ("L" :> "l") @@
    ("M" :> "m") @@ ("N" :> "n") @@ ("O" :> "o") @@ ("P" :> "p") @@
    ("Q" :> "q") @@ ("R" :> "r") @@ ("S" :> "s") @@ ("T" :> "t") @@
    ("U" :> "u") @@ ("V" :> "v") @@ ("W" :> "w") @@ ("X" :> "x") @@
    ("Y" :> "y") @@ ("Z" :> "z")

LowerAlnum ==
    {LowerMap[c] : c \in DOMAIN LowerMap} \cup
    {"0", "1", "2", "3", "4", "5", "6", "7", "8", "9"}

\* the characters \s matches, among those of the model
Whitespace ==
    {" ", "\n"}

toLowerCharIdentity(c) ==
    c

toLowerChar(c) ==
    IF c \in DOMAIN LowerMap THEN LowerMap[c] ELSE c

toLowerCase(s) ==
    [i \in 1..Len(s) |-> toLowerChar(s[i])]

SetMin(S) ==
    CHOOSE x \in S : \A y \in S : x <= y

SetMax(S) ==
    CHOOSE x \in S : \A y \in S : x >= y

trim(s) ==
    LET keep == {i \in 1..Len(s) : s[i] \notin Whitespace}
    IN  IF keep = {} THEN <<>> ELSE SubSeq(s, SetMin(keep), SetMax(keep))

\* s.includes(sub)
includes(s, sub) ==
    \E k \in 0..(Len(s) - Len(sub)) : SubSeq(s, k + 1, k + Len(sub)) = sub

\* s.indexOf(sub): 0-based, -1 when absent
indexOf(s, sub) ==
    IF includes(s, sub)
    THEN SetMin({k \in 0..(Len(s) - Len(sub)) : SubSeq(s, k + 1, k + Len(sub)) = sub})
    ELSE -1

\* s.split(re): the fields of s between its separators, a separator being one
\* character of seps, or with runs a maximal run of them
splitOn(s, seps, runs) ==
    LET positions == [i \in 1..Len(s) |-> i]
        starts == SelectSeq(positions, LAMBDA i :
                      s[i] \in seps /\ (runs => (i = 1 \/ s[i - 1] \notin seps)))
        ends == SelectSeq(positions, LAMBDA i :
                      s[i] \in seps /\ (runs => (i = Len(s) \/ s[i + 1] \notin seps)))
        n == Len(starts)
    IN  [k \in 1..(n + 1) |->
            SubSeq(s, IF k = 1 THEN 1 ELSE ends[k - 1] + 1,
                      IF k = n + 1 THEN Len(s) ELSE starts[k] - 1)]

\* s.split(/[.\n]/)
splitSegments(s) ==
    splitOn(s, {".", "\n"}, FALSE)

\* s.split(/\s+/)
splitWhitespace(s) ==
    splitOn(s, Whitespace, TRUE)

\* s.replace(/[^a-z0-9]/g, '')
stripNonAlnum(s) ==
    SelectSeq(s, LAMBDA c : c \in LowerAlnum)

----------------------------------------------------------------------------
(* new RegExp(brandWords.join('[\\s\\-\\_]*'), 'i')                         *)
(*                                                                         *)
(* The pattern is read left to right into a sequence of items, each a      *)
(* character set with a repetition.  Of the characters with a meaning in   *)
(* a pattern the model has '.', any character but a line terminator, and   *)
(* '+', one or more of the item before it; a '+' with no item to repeat    *)
(* (at the start, or after another quantifier such as the '*' of the       *)
(* joiner) is a SyntaxError.                                               *)

\* the pattern as symbols: the characters of the words, "SEP" for each joiner
RECURSIVE joinPattern(_)
joinPattern(brandWords) ==
    IF Len(brandWords) = 1 THEN brandWords[1]
    ELSE brandWords[1] \o <<"SEP">> \o joinPattern(Tail(brandWords))

RECURSIVE compileFrom(_, _, _)
compileFrom(syms, k, items) ==
    IF k > Len(syms) THEN [ok |-> TRUE, items |-> items]
    ELSE LET s == syms[k]
             n == Len(items)
         IN  IF s = "+"
             THEN IF n = 0 \/ items[n].rep # "one"
                  THEN [ok |-> FALSE, items |-> <<>>]
                  ELSE compileFrom(syms, k + 1,
                          [items EXCEPT ![n] = [@ EXCEPT !.rep = "plus"]])
             ELSE IF s = "SEP"
             THEN compileFrom(syms, k + 1,
                     Append(items, [kind |-> "sep", ch |-> "", rep |-> "star"]))
             ELSE IF s = "."
             THEN compileFrom(syms, k + 1,
                     Append(items, [kind |-> "any", ch |-> "", rep |-> "one"]))
             ELSE compileFrom(syms, k + 1,
                     Append(items, [kind |-> "lit", ch |-> s, rep |-> "one"]))

RegExp(brandWords) ==
    compileFrom(joinPattern(brandWords), 1, <<>>)

\* whether an item's character set holds c, under the 'i' flag
accepts(item, c) ==
    CASE item.kind = "lit" -> toLowerChar(c) = toLowerChar(item.ch)
      [] item.kind = "any" -> c # "\n"
      [] item.kind = "sep" -> c \in Whitespace \cup {"-", "_"}

\* whether items i.. match s from position p (1-based) on
RECURSIVE matchHere(_, _, _, _)
matchHere(items, i, s, p) ==
    IF i > Len(items) THEN TRUE
    ELSE LET it == items[i]
             here == p <= Len(s) /\ accepts(it, s[p])
         IN  CASE it.rep = "one" -> here /\ matchHere(items, i + 1, s, p + 1)
               [] it.rep = "star" ->
                    \/ matchHere(items, i + 1, s, p)
                    \/ here /\ matchHere(items, i, s, p + 1)
               [] it.rep = "plus" ->
                    here /\ (\/ matchHere(items, i + 1, s, p + 1)
                             \/ matchHere(items, i, s, p + 1))

\* regex.test(s)
regexTest(regex, s) ==
    \E p \in 1..(Len(s) + 1) : matchHere(regex.items, 1, s, p)

----------------------------------------------------------------------------
(* detectBrandMention                                                      *)

Returned(mentioned, position) ==
    [thrown |-> FALSE, mentioned |-> mentioned, position |-> position]

Thrown ==
    [thrown |-> TRUE, mentioned |-> FALSE, position |-> NullPosition]

NotMentioned ==
    Returned(FALSE, NullPosition)

MentionedAtOffByOne(i) ==
    Returned(TRUE, i)

\* return { mentioned: true, position: i + 1 }
MentionedAt(i) ==
    Returned(TRUE, i + 1)

\* the i (0-based) at which a loop over the segments returns, -1 when it ends
firstIndex(hits) ==
    IF hits = {} THEN -1 ELSE SetMin(hits)

exactPassNoLower(segments, brandLower) ==
    firstIndex({i \in 0..(Len(segments) - 1) : includes(segments[i + 1], brandLower)})

\* for (i ...) if (segments[i].toLowerCase().includes(brandLower)) return
exactPass(segments, brandLower) ==
    firstIndex({i \in 0..(Len(segments) - 1) :
                  includes(toLowerCase(segments[i + 1]), brandLower)})

\* for (i ...) if (regex.test(segments[i])) return
loosePass(segments, regex) ==
    firstIndex({i \in 0..(Len(segments) - 1) : regexTest(regex, segments[i + 1])})

\* the inner loop over j: the j (0-based) at which it returns, -1 when it ends
segmentOfIndex(segments, index) ==
    LET sumTo(j) == LET f[k \in 0..j] ==
                            IF k = 0 THEN 0 ELSE f[k - 1] + Len(segments[k])
                    IN  f[j]
        js == {j \in 0..(Len(segments) - 1) : sumTo(j + 1) >= index}
    IN  IF js = {} THEN -1 ELSE SetMin(js)

\* the test of lines 88-89, word and brand being the stripped ones
partialWordHit(word, brand) ==
    /\ Len(word) > 3
    /\ Len(brand) > 3
    /\ (includes(word, brand) \/ includes(brand, word))

\* the loop over the words, from words[1] on: the j (0-based) it returns at,
\* -1 when it ends
RECURSIVE scanWords(_, _, _, _)
scanWords(words, textLower, segments, brand) ==
    IF words = <<>> THEN -1
    ELSE LET word == stripNonAlnum(words[1])
             j == IF partialWordHit(word, brand)
                  THEN segmentOfIndex(segments, indexOf(textLower, word))
                  ELSE -1
         IN  IF j # -1 THEN j
             ELSE scanWords(Tail(words), textLower, segments, brand)

\* lines 82-100
partialPass(text, segments, brandLower) ==
    scanWords(splitWhitespace(toLowerCase(text)), toLowerCase(text), segments,
              stripNonAlnum(brandLower))

guardTextOnly(text, brand) ==
    Falsy(text)

\* if (!text || !brandName)
guard(text, brand) ==
    Falsy(text) \/ Falsy(brand)

detectBrandMention(text, brand) ==
    IF guard(text, brand) THEN NotMentioned
    ELSE LET brandLower == trim(toLowerCase(brand))
             segments == splitSegments(text)
             exact == exactPass(segments, brandLower)
         IN  IF exact # -1 THEN MentionedAt(exact)
             ELSE LET regex == RegExp(splitWhitespace(brandLower))
                  IN  IF ~regex.ok THEN Thrown
                      ELSE LET loose == loosePass(segments, regex)
                           IN  IF loose # -1 THEN MentionedAt(loose)
                               ELSE LET partial == partialPass(text, segments, brandLower)
                                    IN  IF partial # -1 THEN MentionedAt(partial)
                                        ELSE NotMentioned


----------------------------------------------------------------------------
(* The check-brand handler                                                 *)

MODEL_OPTIONS ==
    <<"gemini-2.5-flash", "gemini-2.5-pro", "gemini-2.0-flash-exp">>

MODEL_NAME ==
    MODEL_OPTIONS[1]

getCannedResponse ==
    <<"H", "e", "r", "e", " ", "a", "r", "e", " ", "s", "o", "m", "e", " ", "p", "o", "p", "u", "l", "a", "r", " ", "o", "p", "t", "i", "o", "n", "s", " ", "i", "n", " ", "t", "h", "e", " ", "m", "a", "r", "k", "e", "t", ":", "\n">> \o
    <<"1", ".", " ", "L", "e", "a", "d", "i", "n", "g", " ", "i", "n", "d", "u", "s", "t", "r", "y", " ", "s", "o", "l", "u", "t", "i", "o", "n", "s", "\n">> \o
    <<"2", ".", " ", "W", "e", "l", "l", "-", "e", "s", "t", "a", "b", "l", "i", "s", "h", "e", "d", " ", "p", "l", "a", "t", "f", "o", "r", "m", "s", "\n">> \o
    <<"3", ".", " ", "I", "n", "n", "o", "v", "a", "t", "i", "v", "e", " ", "t", "o", "o", "l", "s", " ", "a", "n", "d", " ", "s", "e", "r", "v", "i", "c", "e", "s", "\n">> \o
    <<"4", ".", " ", "C", "o", "s", "t", "-", "e", "f", "f", "e", "c", "t", "i", "v", "e", " ", "a", "l", "t", "e", "r", "n", "a", "t", "i", "v", "e", "s", "\n">> \o
    <<"5", ".", " ", "E", "n", "t", "e", "r", "p", "r", "i", "s", "e", "-", "g", "r", "a", "d", "e", " ", "s", "o", "l", "u", "t", "i", "o", "n", "s", "\n">> \o
    <<"\n">> \o
    <<"T", "h", "e", "s", "e", " ", "r", "e", "p", "r", "e", "s", "e", "n", "t", " ", "v", "a", "r", "i", "o", "u", "s", " ", "o", "p", "t", "i", "o", "n", "s", " ", "a", "v", "a", "i", "l", "a", "b", "l", "e", " ", "f", "o", "r", " ", "y", "o", "u", "r", " ", "n", "e", "e", "d", "s", ".">>

\* what one candidate's generateContent call resolves to: the call throws, or it
\* gives a response whose text accessor is absent, throws or returns a string,
\* and which has content parts (each with a text, or without one) or none
Blank ==
    <<" ">>

TextA ==
    <<"A", "c", "m", "e", " ", "i", "s", " ", "b", "e", "s", "t", ".", "\n", "O", "r", " ", "Z", "o", "h", "o", ".">>

TextB ==
    <<"T", "r", "y", " ", "Z", "o", "h", "o", ".", "\n", "O", "r", " ", "a", "c", "m", "e", "-", "c", "o", "r", "p">>

CandidateResults ==
    {[threw |-> TRUE, text |-> "absent", value |-> <<>>, parts |-> <<>>]} \cup
    [threw : {FALSE},
     text  : {"absent", "throws"},
     value : {<<>>},
     parts : {<<>>, <<Blank>>, <<TextA>>, <<Undefined, TextB>>}] \cup
    [threw : {FALSE},
     text  : {"returns"},
     value : {<<>>, Blank, TextA, TextB},
     parts : {<<>>, <<Blank>>, <<TextA>>, <<Undefined, TextB>>}]

Prompts ==
    {Undefined, <<>>, <<" ">>, <<"b", "e", "s", "t", " ", "C", "R", "M">>}

BrandNames ==
    {Undefined, <<>>, <<" ", " ">>,
     <<"A", "c", "m", "e">>,
     <<"a", "c", "m", "e", " ", "c", "o", "r", "p">>,
     <<"c", "+", "+">>,
     <<"t", "o", "o", "l", "s">>}

\* candidate.content.parts.map(part => part.text || '').join('')
RECURSIVE joinParts(_)
joinParts(parts) ==
    IF parts = <<>> THEN <<>>
    ELSE (IF Falsy(parts[1]) THEN <<>> ELSE parts[1]) \o joinParts(Tail(parts))

\* lines 176-183: geminiResponse after the text accessor was tried
afterTextAccessor(current, r) ==
    IF r.text = "returns" THEN r.value ELSE current

\* lines 176-193: geminiResponse after the extraction from r, current being its
\* value when the iteration starts
extracted(current, r) ==
    LET first == afterTextAccessor(current, r)
    IN  IF Falsy(first) /\ r.parts # <<>> THEN joinParts(r.parts) ELSE first

isEmptyResponseNoTrim(text) ==
    Falsy(text)

\* line 201: the text that sends the loop to the next model
isEmptyResponse(text) ==
    Falsy(text) \/ trim(text) = <<>>

\* whether the iteration for r ends in the catch of line 211
candidateFails(current, r) ==
    r.threw \/ isEmptyResponse(extracted(current, r))

\* geminiResponse when the iteration for r ends
responseAfter(current, r) ==
    IF r.threw THEN current ELSE extracted(current, r)

invalidMissingOnly(p, b) ==
    Falsy(p) \/ Falsy(b)

\* lines 135 and 142: the request is answered 400
invalid(p, b) ==
    \/ Falsy(p) \/ Falsy(b)
    \/ trim(p) = <<>> \/ trim(b) = <<>>

BadRequest ==
    [status |-> 400, success |-> FALSE, mentioned |-> "", position |-> NullPosition,
     geminiResponse |-> Undefined, usedCannedResponse |-> FALSE,
     errorOccurred |-> FALSE]

\* the payload of lines 233-243 and 254-265
Payload(detection, text, canned, err) ==
    [status |-> 200, success |-> TRUE,
     mentioned |-> IF detection.mentioned THEN "Yes" ELSE "No",
     position |-> IF detection.mentioned THEN detection.position ELSE NullPosition,
     geminiResponse |-> text, usedCannedResponse |-> canned,
     errorOccurred |-> err]

\* what the framework sends when the handler's promise rejects: nothing (the
\* rejection is unhandled), or its own error response
Unanswered ==
    {<<>>,
     <<[status |-> 500, success |-> FALSE, mentioned |-> "", position |-> NullPosition,
        geminiResponse |-> Undefined, usedCannedResponse |-> FALSE,
        errorOccurred |-> FALSE]>>}

\* the texts the model loop can end with
OutcomeTexts ==
    {getCannedResponse} \cup {r.value : r \in CandidateResults}
                       \cup {joinParts(r.parts) : r \in CandidateResults}

\* detectBrandMention(text, brandName) for the texts and brand names of the
\* handler, computed once
detections ==
    [text \in OutcomeTexts, brand \in BrandNames |-> detectBrandMention(text, brand)]

\* lines 229-266: detection and the response, text and canned being the outcome
\* of the model loop
Respond(text, canned) ==
    \E detection \in {detections[text, brandName]} :
       IF ~detection.thrown
       THEN /\ response' = <<Payload(detection, text, canned, FALSE)>>
            /\ pc' = "done"
       ELSE \E recovery \in {detections[getCannedResponse, brandName]} :
               IF ~recovery.thrown
               THEN /\ response' = <<Payload(recovery, getCannedResponse, TRUE, TRUE)>>
                    /\ pc' = "done"
               ELSE /\ response' \in Unanswered
                    /\ pc' = "rejected"

\* 'your_actual_api_key_here' (line 20)
Placeholder ==
    <<"y", "o", "u", "r", "_", "a", "c", "t", "u", "a", "l", "_", "a", "p", "i", "_",
      "k", "e", "y", "_", "h", "e", "r", "e">>

\* the page as it is first rendered: lines 16-20
FrontIdle ==
    /\ fResults = <<>>
    /\ fLoading = FALSE
    /\ fError = ""
    /\ fCaptured = <<>>
    /\ fSubmits = 0
    /\ fCleared = {}

\* the process of backend/server.js listens, started with a key
Running ==
    /\ entry = "backend/server.js"
    /\ apiKey = <<"k">>
    /\ proc = "listening"
    /\ healthServed = 0

Init ==
    /\ FrontIdle
    /\ Running
    /\ reqs = <<>>
    /\ pc = "idle"
    /\ prompt = Undefined
    /\ brandName = Undefined
    /\ idx = 0
    /\ calls = 0
    /\ invoked = <<>>
    /\ results = <<>>
    /\ geminiResponse = Undefined
    /\ usedCannedResponse = FALSE
    /\ modelUsed = ""
    /\ success = FALSE
    /\ response = <<>>
    /\ dPc = "off"
    /\ dText = Undefined
    /\ dBrand = Undefined
    /\ dResult = NotMentioned

\* a request that fails the validation: lines 132-147
RejectRequest ==
    /\ pc = "idle"
    /\ \E p \in Prompts, b \in BrandNames :
          /\ invalid(p, b)
          /\ prompt' = p
          /\ brandName' = b
    /\ response' = <<BadRequest>>
    /\ pc' = "done"
    /\ UNCHANGED <<idx, calls, invoked, results, geminiResponse,
                   usedCannedResponse, modelUsed, success>>
    /\ UNCHANGED detectVars
    /\ UNCHANGED startVars
    /\ UNCHANGED concVars
    /\ UNCHANGED frontVars

\* a request that passes it: lines 132-172, up to the first await
AcceptRequest ==
    /\ pc = "idle"
    /\ \E p \in Prompts, b \in BrandNames :
          /\ ~invalid(p, b)
          /\ prompt' = p
          /\ brandName' = b
    /\ geminiResponse' = Undefined
    /\ usedCannedResponse' = FALSE
    /\ modelUsed' = MODEL_NAME
    /\ success' = FALSE
    /\ idx' = 1
    /\ calls' = 1
    /\ invoked' = <<MODEL_OPTIONS[1]>>
    /\ pc' = "await"
    /\ UNCHANGED <<results, response>>
    /\ UNCHANGED detectVars
    /\ UNCHANGED startVars
    /\ UNCHANGED concVars
    /\ UNCHANGED frontVars

\* the awaited call resolves and the model gives a text: lines 173-209, 229-266
CandidateSucceeds ==
    /\ pc = "await"
    /\ \E r \in CandidateResults :
          /\ ~candidateFails(geminiResponse, r)
          /\ results' = Append(results, r)
          /\ geminiResponse' = responseAfter(geminiResponse, r)
          /\ Respond(responseAfter(geminiResponse, r), FALSE)
    /\ modelUsed' = MODEL_OPTIONS[idx]
    /\ success' = TRUE
    /\ UNCHANGED <<prompt, brandName, idx, calls, invoked, usedCannedResponse>>
    /\ UNCHANGED detectVars
    /\ UNCHANGED startVars
    /\ UNCHANGED concVars
    /\ UNCHANGED frontVars

CandidateFailsTryFirstAgain ==
    /\ pc = "await"
    /\ idx < Len(MODEL_OPTIONS)
    /\ \E r \in CandidateResults :
          /\ candidateFails(geminiResponse, r)
          /\ results' = Append(results, r)
          /\ geminiResponse' = responseAfter(geminiResponse, r)
    /\ idx' = idx + 1
    /\ calls' = calls + 1
    /\ invoked' = Append(invoked, MODEL_OPTIONS[1])
    /\ UNCHANGED <<pc, prompt, brandName, usedCannedResponse, modelUsed, success,
                   response>>
    /\ UNCHANGED detectVars
    /\ UNCHANGED startVars
    /\ UNCHANGED concVars
    /\ UNCHANGED frontVars

\* it resolves, the model fails and the next one is called: lines 173-216, 161-172
CandidateFailsTryNext ==
    /\ pc = "await"
    /\ idx < Len(MODEL_OPTIONS)
    /\ \E r \in CandidateResults :
          /\ candidateFails(geminiResponse, r)
          /\ results' = Append(results, r)
          /\ geminiResponse' = responseAfter(geminiResponse, r)
    /\ idx' = idx + 1
    /\ calls' = calls + 1
    /\ invoked' = Append(invoked, MODEL_OPTIONS[idx + 1])
    /\ UNCHANGED <<pc, prompt, brandName, usedCannedResponse, modelUsed, success,
                   response>>
    /\ UNCHANGED detectVars
    /\ UNCHANGED startVars
    /\ UNCHANGED concVars
    /\ UNCHANGED frontVars

CandidateFailsLastStartsOver ==
    /\ pc = "await"
    /\ idx = Len(MODEL_OPTIONS)
    /\ \E r \in CandidateResults :
          /\ candidateFails(geminiResponse, r)
          /\ geminiResponse' = responseAfter(geminiResponse, r)
    /\ results' = <<>>
    /\ idx' = 1
    /\ UNCHANGED <<pc, prompt, brandName, calls, invoked, usedCannedResponse,
                   modelUsed, success, response>>
    /\ UNCHANGED detectVars
    /\ UNCHANGED startVars
    /\ UNCHANGED concVars
    /\ UNCHANGED frontVars

\* it resolves and the last model fails: lines 173-227, 229-266
CandidateFailsLast ==
    /\ pc = "await"
    /\ idx = Len(MODEL_OPTIONS)
    /\ \E r \in CandidateResults :
          /\ candidateFails(geminiResponse, r)
          /\ results' = Append(results, r)
    /\ geminiResponse' = getCannedResponse
    /\ usedCannedResponse' = TRUE
    /\ Respond(getCannedResponse, TRUE)
    /\ UNCHANGED <<prompt, brandName, idx, calls, invoked, modelUsed, success>>
    /\ UNCHANGED detectVars
    /\ UNCHANGED startVars
    /\ UNCHANGED concVars
    /\ UNCHANGED frontVars

Next ==
    \/ RejectRequest
    \/ AcceptRequest
    \/ CandidateSucceeds
    \/ CandidateFailsTryNext
    \/ CandidateFailsLast

Spec ==
    Init /\ [][Next]_vars

\* await model.generateContent(prompt) (line 172) resumes: the call returned or
\* threw
ResolveCall ==
    CandidateSucceeds \/ CandidateFailsTryNext \/ CandidateFailsLast

\* every generateContent call eventually returns or throws
FairSpec ==
    Spec /\ WF_vars(ResolveCall)

----------------------------------------------------------------------------
(* Direct calls of detectBrandMention, over texts and brand names put      *)
(* together from a few tokens                                              *)

MaxTokens ==
    4

Acme ==
    <<"A", "c", "m", "e">>

corp ==
    <<"c", "o", "r", "p">>

Ellipsis ==
    <<".", ".", ".">>

TextTokens ==
    {Acme, corp, <<" ">>, <<"-">>, <<".">>, <<"\n">>, <<"+">>, Ellipsis}

RECURSIVE Concats(_, _)
Concats(tokens, n) ==
    IF n = 0 THEN {<<>>}
    ELSE LET shorter == Concats(tokens, n - 1)
         IN  shorter \cup {s \o t : s \in shorter, t \in tokens}

DetectTexts ==
    Concats(TextTokens, MaxTokens) \cup {Undefined}

DetectBrands ==
    {Undefined,
     <<>>,
     <<" ">>,
     <<"a", "c", "m", "e">>,
     <<" ", "A", "c", "m", "e", " ">>,
     <<"a", "c", "m", "e", " ", "c", "o", "r", "p">>,
     <<"A", "c", "m", "e", " ", " ", "C", "o", "r", "p">>,
     <<"a", "c", "m", "e", "c", "o", "r", "p">>,
     <<"a", "c", "m">>,
     <<"a", ".", "m", "e">>,
     <<"+">>,
     <<"a", "c", "m", "e", "+">>,
     <<"+", " ", "c", "o", "r", "p">>,
     <<"a", "c", "m", "e", "+", " ", "c", "o", "r", "p">>}

\* no request is handled
HandlerIdle ==
    /\ pc = "off"
    /\ prompt = Undefined
    /\ brandName = Undefined
    /\ idx = 0
    /\ calls = 0
    /\ invoked = <<>>
    /\ results = <<>>
    /\ geminiResponse = Undefined
    /\ usedCannedResponse = FALSE
    /\ modelUsed = ""
    /\ success = FALSE
    /\ response = <<>>

DetectInit ==
    /\ FrontIdle
    /\ Running
    /\ reqs = <<>>
    /\ HandlerIdle
    /\ dPc = "call"
    /\ dText \in DetectTexts
    /\ dBrand \in DetectBrands
    /\ dResult = NotMentioned

Detect ==
    /\ dPc = "call"
    /\ dResult' = detectBrandMention(dText, dBrand)
    /\ dPc' = "done"
    /\ UNCHANGED <<dText, dBrand>>
    /\ UNCHANGED handlerVars
    /\ UNCHANGED startVars
    /\ UNCHANGED concVars
    /\ UNCHANGED frontVars

DetectNext ==
    Detect

DetectSpec ==
    DetectInit /\ [][DetectNext]_vars

\* the direct calls over the shorter texts
MaxShortTokens ==
    3

ShortInit ==
    /\ FrontIdle
    /\ Running
    /\ reqs = <<>>
    /\ HandlerIdle
    /\ dPc = "call"
    /\ dText \in Concats(TextTokens, MaxShortTokens)
    /\ dBrand \in DetectBrands
    /\ dResult = NotMentioned

ShortSpec ==
    ShortInit /\ [][DetectNext]_vars

\* the handler and the direct calls side by side
BothInit ==
    Init \/ DetectInit

BothNext ==
    Next \/ DetectNext

BothSpec ==
    BothInit /\ [][BothNext]_vars

----------------------------------------------------------------------------
(* Startup of the process, for the two files of the repository that start  *)
(* the server: backend/server.js, and the file unnamed/part_000, which has *)
(* no validation of the key between dotenv.config() and app.listen         *)

MaxKeyTokens ==
    3

MaxHealth ==
    2

Entries ==
    {"backend/server.js", "unnamed/part_000"}

KeyTokens ==
    {<<" ">>, <<"k">>, Placeholder}

\* the values of GEMINI_API_KEY: unset, or a string
ApiKeys ==
    Concats(KeyTokens, MaxKeyTokens) \cup {Undefined}

StartInit ==
    /\ FrontIdle
    /\ HandlerIdle
    /\ reqs = <<>>
    /\ dPc = "off"
    /\ dText = Undefined
    /\ dBrand = Undefined
    /\ dResult = NotMentioned
    /\ entry \in Entries
    /\ apiKey \in ApiKeys
    /\ proc = "starting"
    /\ healthServed = 0

\* the condition of line 20, key being a non-empty string
keyRejected(key) ==
    trim(key) = <<>> \/ key = Placeholder

\* server.js lines 11-18: process.exit(1) when the key is unset or empty
ExitKeyNotSet ==
    /\ proc = "starting"
    /\ entry = "backend/server.js"
    /\ Falsy(apiKey)
    /\ proc' = "exited"
    /\ UNCHANGED <<entry, apiKey, healthServed>>
    /\ UNCHANGED handlerVars
    /\ UNCHANGED detectVars
    /\ UNCHANGED concVars
    /\ UNCHANGED frontVars

\* server.js lines 20-25: process.exit(1) when it is blank or the placeholder
ExitKeyBlankOrPlaceholder ==
    /\ proc = "starting"
    /\ entry = "backend/server.js"
    /\ ~Falsy(apiKey)
    /\ keyRejected(apiKey)
    /\ proc' = "exited"
    /\ UNCHANGED <<entry, apiKey, healthServed>>
    /\ UNCHANGED handlerVars
    /\ UNCHANGED detectVars
    /\ UNCHANGED concVars
    /\ UNCHANGED frontVars

\* server.js lines 27-32, 270: the key passed both tests, app.listen
Listen ==
    /\ proc = "starting"
    /\ entry = "backend/server.js"
    /\ ~Falsy(apiKey)
    /\ ~keyRejected(apiKey)
    /\ proc' = "listening"
    /\ UNCHANGED <<entry, apiKey, healthServed>>
    /\ UNCHANGED handlerVars
    /\ UNCHANGED detectVars
    /\ UNCHANGED concVars
    /\ UNCHANGED frontVars

\* part_000 lines 6-16, 186: app.listen whatever the key is
ListenUnchecked ==
    /\ proc = "starting"
    /\ entry = "unnamed/part_000"
    /\ proc' = "listening"
    /\ UNCHANGED <<entry, apiKey, healthServed>>
    /\ UNCHANGED handlerVars
    /\ UNCHANGED detectVars
    /\ UNCHANGED concVars
    /\ UNCHANGED frontVars

\* GET /health is answered: server.js lines 120-127, part_000 lines 96-98
Health ==
    /\ proc = "listening"
    /\ healthServed < MaxHealth
    /\ healthServed' = healthServed + 1
    /\ UNCHANGED <<entry, apiKey, proc>>
    /\ UNCHANGED handlerVars
    /\ UNCHANGED detectVars
    /\ UNCHANGED concVars
    /\ UNCHANGED frontVars

StartNext ==
    \/ ExitKeyNotSet
    \/ ExitKeyBlankOrPlaceholder
    \/ Listen
    \/ ListenUnchecked
    \/ Health

StartSpec ==
    StartInit /\ [][StartNext]_vars

----------------------------------------------------------------------------
(* Several requests handled side by side: each invocation of the async     *)
(* handler has its own req, res and locals (lines 130-156), and the        *)
(* invocations interleave at await model.generateContent (line 172)        *)

NumRequests ==
    2

Requests ==
    1..NumRequests

ConcPrompt ==
    <<"b", "e", "s", "t", " ", "C", "R", "M">>

ConcBrands ==
    {Undefined, <<"A", "c", "m", "e">>, <<"t", "o", "o", "l", "s">>}

\* the call throws, the text accessor returns ' ', or it is absent and the
\* parts give TextA
ConcResults ==
    {r \in CandidateResults :
        \/ r.threw
        \/ r.text = "returns" /\ r.value = Blank /\ r.parts = <<>>
        \/ r.text = "absent" /\ r.parts = <<TextA>>}

\* the locals of an invocation that has not started
IdleFrame ==
    [pc |-> "idle", prompt |-> Undefined, brandName |-> Undefined, idx |-> 0,
     results |-> <<>>, geminiResponse |-> Undefined, usedCannedResponse |-> FALSE,
     modelUsed |-> "", success |-> FALSE, response |-> <<>>]

\* lines 229-266 as a function: how the handler can end and what it sends, text
\* and canned being the outcome of the model loop
responsesTo(text, canned, brand) ==
    LET detection == detections[text, brand]
        recovery == detections[getCannedResponse, brand]
    IN  IF ~detection.thrown
        THEN {[pc |-> "done", response |-> <<Payload(detection, text, canned, FALSE)>>]}
        ELSE IF ~recovery.thrown
        THEN {[pc |-> "done",
               response |-> <<Payload(recovery, getCannedResponse, TRUE, TRUE)>>]}
        ELSE {[pc |-> "rejected", response |-> u] : u \in Unanswered}

ConcInit ==
    /\ FrontIdle
    /\ Running
    /\ HandlerIdle
    /\ dPc = "off"
    /\ dText = Undefined
    /\ dBrand = Undefined
    /\ dResult = NotMentioned
    /\ reqs = [q \in Requests |-> IdleFrame]

\* request q fails the validation: lines 132-147
ConcReject(q) ==
    /\ reqs[q].pc = "idle"
    /\ \E b \in ConcBrands :
          /\ invalid(ConcPrompt, b)
          /\ reqs' = [reqs EXCEPT ![q] =
                         [@ EXCEPT !.prompt = ConcPrompt, !.brandName = b,
                                   !.response = <<BadRequest>>, !.pc = "done"]]
    /\ UNCHANGED handlerVars
    /\ UNCHANGED detectVars
    /\ UNCHANGED startVars
    /\ UNCHANGED frontVars

\* request q passes it and its first call is issued: lines 132-172
ConcAccept(q) ==
    /\ reqs[q].pc = "idle"
    /\ \E b \in ConcBrands :
          /\ ~invalid(ConcPrompt, b)
          /\ reqs' = [reqs EXCEPT ![q] =
                         [@ EXCEPT !.prompt = ConcPrompt, !.brandName = b,
                                   !.geminiResponse = Undefined,
                                   !.usedCannedResponse = FALSE,
                                   !.modelUsed = MODEL_NAME, !.success = FALSE,
                                   !.idx = 1, !.pc = "await"]]
    /\ UNCHANGED handlerVars
    /\ UNCHANGED detectVars
    /\ UNCHANGED startVars
    /\ UNCHANGED frontVars

\* the call request q awaits resolves and the model gives a text: lines 173-209,
\* 229-266
ConcSucceeds(q) ==
    /\ reqs[q].pc = "await"
    /\ \E r \in ConcResults :
          /\ ~candidateFails(reqs[q].geminiResponse, r)
          /\ \E text \in {responseAfter(reqs[q].geminiResponse, r)} :
                \E end \in responsesTo(text, FALSE, reqs[q].brandName) :
                   reqs' = [reqs EXCEPT ![q] =
                              [@ EXCEPT !.results = Append(@, r),
                                        !.geminiResponse = text,
                                        !.modelUsed = MODEL_OPTIONS[reqs[q].idx],
                                        !.success = TRUE,
                                        !.pc = end.pc, !.response = end.response]]
    /\ UNCHANGED handlerVars
    /\ UNCHANGED detectVars
    /\ UNCHANGED startVars
    /\ UNCHANGED frontVars

ConcFailsTryNextSharedResponse(q) ==
    /\ reqs[q].pc = "await"
    /\ reqs[q].idx < Len(MODEL_OPTIONS)
    /\ \E r \in ConcResults :
          /\ candidateFails(reqs[q].geminiResponse, r)
          /\ reqs' = [p \in Requests |->
                         IF p = q
                         THEN [reqs[q] EXCEPT
                                  !.results = Append(@, r),
                                  !.geminiResponse = responseAfter(@, r),
                                  !.idx = @ + 1]
                         ELSE [reqs[p] EXCEPT
                                  !.geminiResponse =
                                      responseAfter(reqs[q].geminiResponse, r)]]
    /\ UNCHANGED handlerVars
    /\ UNCHANGED detectVars
    /\ UNCHANGED startVars
    /\ UNCHANGED frontVars

\* it resolves, the model fails and the next one is called: lines 173-216, 161-172
ConcFailsTryNext(q) ==
    /\ reqs[q].pc = "await"
    /\ reqs[q].idx < Len(MODEL_OPTIONS)
    /\ \E r \in ConcResults :
          /\ candidateFails(reqs[q].geminiResponse, r)
          /\ reqs' = [reqs EXCEPT ![q] =
                         [@ EXCEPT !.results = Append(@, r),
                                   !.geminiResponse = responseAfter(@, r),
                                   !.idx = @ + 1]]
    /\ UNCHANGED handlerVars
    /\ UNCHANGED detectVars
    /\ UNCHANGED startVars
    /\ UNCHANGED frontVars

\* it resolves and the last model fails: lines 173-227, 229-266
ConcFailsLast(q) ==
    /\ reqs[q].pc = "await"
    /\ reqs[q].idx = Len(MODEL_OPTIONS)
    /\ \E r \in ConcResults :
          /\ candidateFails(reqs[q].geminiResponse, r)
          /\ \E end \in responsesTo(getCannedResponse, TRUE, reqs[q].brandName) :
                reqs' = [reqs EXCEPT ![q] =
                           [@ EXCEPT !.results = Append(@, r),
                                     !.geminiResponse = getCannedResponse,
                                     !.usedCannedResponse = TRUE,
                                     !.pc = end.pc, !.response = end.response]]
    /\ UNCHANGED handlerVars
    /\ UNCHANGED detectVars
    /\ UNCHANGED startVars
    /\ UNCHANGED frontVars

ConcNext ==
    \E q \in Requests :
       \/ ConcReject(q)
       \/ ConcAccept(q)
       \/ ConcSucceeds(q)
       \/ ConcFailsTryNext(q)
       \/ ConcFailsLast(q)

ConcSpec ==
    ConcInit /\ [][ConcNext]_vars

----------------------------------------------------------------------------
(* The page frontend/pages/index.tsx.  A result is named by the number of  *)
(* the request that gave it.  handleSubmit is created at each render and   *)
(* closes over the results of that render; the one in flight keeps them    *)
(* across its await                                                        *)

MaxSubmits ==
    3

FrontInit ==
    /\ FrontIdle
    /\ Running
    /\ reqs = <<>>
    /\ HandlerIdle
    /\ dPc = "off"
    /\ dText = Undefined
    /\ dBrand = Undefined
    /\ dResult = NotMentioned

\* handleSubmit with a blank field: lines 24-31
SubmitBlank ==
    /\ ~fLoading
    /\ fError' = "Please fill in both fields"
    /\ UNCHANGED <<fResults, fLoading, fCaptured, fSubmits, fCleared>>
    /\ UNCHANGED handlerVars
    /\ UNCHANGED detectVars
    /\ UNCHANGED startVars
    /\ UNCHANGED concVars

\* handleSubmit up to its first await: lines 24-42; the button is disabled
\* while loading (line 158)
Submit ==
    /\ ~fLoading
    /\ fSubmits < MaxSubmits
    /\ fError' = ""
    /\ fLoading' = TRUE
    /\ fCaptured' = fResults
    /\ fSubmits' = fSubmits + 1
    /\ UNCHANGED <<fResults, fCleared>>
    /\ UNCHANGED handlerVars
    /\ UNCHANGED detectVars
    /\ UNCHANGED startVars
    /\ UNCHANGED concVars

\* the response arrives with success and data: lines 44-49, 56-58
ResponseArrives ==
    /\ fLoading
    /\ fResults' = <<fSubmits>> \o fCaptured
    /\ fError' = ""
    /\ fLoading' = FALSE
    /\ UNCHANGED <<fCaptured, fSubmits, fCleared>>
    /\ UNCHANGED handlerVars
    /\ UNCHANGED detectVars
    /\ UNCHANGED startVars
    /\ UNCHANGED concVars

\* it arrives without success, or the fetch or the parsing fails: lines 50-58
ResponseFails ==
    /\ fLoading
    /\ fError' \in {"An error occurred while processing your request",
                    "Failed to connect to the server. Please try again."}
    /\ fLoading' = FALSE
    /\ UNCHANGED <<fResults, fCaptured, fSubmits, fCleared>>
    /\ UNCHANGED handlerVars
    /\ UNCHANGED detectVars
    /\ UNCHANGED startVars
    /\ UNCHANGED concVars

\* clearResults: lines 92-95; its button is rendered when results are listed
\* (line 176) and is not disabled while loading (lines 192-197)
Clear ==
    /\ Len(fResults) > 0
    /\ fResults' = <<>>
    /\ fError' = ""
    /\ fCleared' = fCleared \cup {fResults[i] : i \in 1..Len(fResults)}
    /\ UNCHANGED <<fLoading, fCaptured, fSubmits>>
    /\ UNCHANGED handlerVars
    /\ UNCHANGED detectVars
    /\ UNCHANGED startVars
    /\ UNCHANGED concVars

FrontNext ==
    \/ SubmitBlank
    \/ Submit
    \/ ResponseArrives
    \/ ResponseFails
    \/ Clear

FrontSpec ==
    FrontInit /\ [][FrontNext]_vars

----------------------------------------------------------------------------
(* Properties of the model loop and of the handler                         *)

\* the request is past the validation and its handler has run to its end
Finished ==
    pc \in {"done", "rejected"} /\ calls > 0

\* the text a candidate's own result gives: the text accessor's string, or the
\* joined parts when the accessor is absent, throws or gives the empty string
textYielded(r) ==
    IF r.text = "returns" /\ r.value # <<>> THEN r.value
    ELSE IF r.parts # <<>> THEN joinParts(r.parts)
    ELSE <<>>

isBlank(text) ==
    \A i \in 1..Len(text) : text[i] \in Whitespace

yieldsText(r) ==
    ~r.threw /\ ~isBlank(textYielded(r))

\* C1: when some candidate's result yields non-blank text, the outcome is the
\* text of the first such candidate, modelUsed names it and usedCannedResponse
\* is false, whatever the candidates before it returned
C1_FirstYieldingCandidateWins ==
    Finished =>
        \A k \in 1..Len(results) :
            (yieldsText(results[k]) /\ \A j \in 1..(k - 1) : ~yieldsText(results[j]))
            => /\ geminiResponse = textYielded(results[k])
               /\ modelUsed = MODEL_OPTIONS[k]
               /\ usedCannedResponse = FALSE

\* C2: when every candidate throws or yields blank text the outcome is the canned
\* text with usedCannedResponse true, and usedCannedResponse is true only when no
\* candidate yielded non-blank text
C2_CannedIffNoCandidateYields ==
    Finished =>
        /\ (\A k \in 1..Len(results) : ~yieldsText(results[k]))
           => (geminiResponse = getCannedResponse /\ usedCannedResponse)
        /\ usedCannedResponse
           => (\A k \in 1..Len(results) : ~yieldsText(results[k]))

\* C3: a request that passed the validation and whose handler has ended was sent
\* exactly one response, a 200 with success true
C3_AlwaysAnswered ==
    Finished =>
        /\ Len(response) = 1
        /\ response[1].status = 200
        /\ response[1].success

missingOrBlank(v) ==
    v = Undefined \/ isBlank(v)

\* C4: a request whose prompt or brandName is missing, empty or blank is answered
\* 400 with success false and no generation call is made for it; a generation
\* call is made only when neither is
C4_InvalidRequestRejected ==
    /\ (pc \notin {"off", "idle"} /\ (missingOrBlank(prompt) \/ missingOrBlank(brandName)))
       => /\ Len(response) = 1
          /\ response[1].status = 400
          /\ ~response[1].success
          /\ calls = 0
          /\ results = <<>>
    /\ calls > 0 => (~missingOrBlank(prompt) /\ ~missingOrBlank(brandName))

\* a blank brand name with a good prompt was answered 400
C4_Witness ==
    /\ pc = "done"
    /\ ~missingOrBlank(prompt)
    /\ brandName = <<" ", " ">>
    /\ response[1].status = 400
    /\ calls = 0

\* modelUsed names one of the models of MODEL_OPTIONS
namesModel(m) ==
    \E k \in 1..Len(MODEL_OPTIONS) : m = MODEL_OPTIONS[k]

\* C11: when the model loop has ended, modelUsed names no model exactly when
\* usedCannedResponse is true
C11_ModelUsedNullIffFallback ==
    Finished => (~namesModel(modelUsed) <=> usedCannedResponse)

\* C14: the calls of a request go to the models of MODEL_OPTIONS in list order,
\* each at most once; at most one call is outstanding; a call is outstanding only
\* while no model has succeeded, so the call to the next model is issued only
\* after the one before it resolved and was classified as failed, and none is
\* issued after a success
C14_TrialOrder ==
    /\ calls = Len(invoked)
    /\ Len(invoked) <= Len(MODEL_OPTIONS)
    /\ invoked = SubSeq(MODEL_OPTIONS, 1, Len(invoked))
    /\ Len(invoked) - Len(results) \in {0, 1}
    /\ Len(invoked) > Len(results) => (pc = "await" /\ ~success)
    /\ success => (Len(invoked) = Len(results) /\ modelUsed = invoked[Len(invoked)])

\* the third model was called after the first two had failed, and succeeded
C14_Witness ==
    /\ pc = "done"
    /\ success
    /\ invoked = MODEL_OPTIONS
    /\ Len(results) = Len(MODEL_OPTIONS)

\* the state of the orchestration of spec section 4: Pending until the first
\* call is issued, TryingCandidate(i) while the call to model i is awaited, then
\* Success or ExhaustedFallback
orchState ==
    IF pc = "await" THEN <<"TryingCandidate", idx>>
    ELSE IF calls = 0 THEN <<"Pending", 0>>
    ELSE IF success THEN <<"Success", 0>>
    ELSE <<"ExhaustedFallback", 0>>

orchStep(a, b) ==
    \/ a = <<"Pending", 0>> /\ b = <<"TryingCandidate", 1>>
    \/ a[1] = "TryingCandidate" /\ b = <<"Success", 0>>
    \/ a[1] = "TryingCandidate" /\ b = <<"TryingCandidate", a[2] + 1>>
    \/ a = <<"TryingCandidate", Len(MODEL_OPTIONS)>> /\ b = <<"ExhaustedFallback", 0>>

\* C15: when every call returns or throws, an orchestration that left Pending
\* reaches Success or ExhaustedFallback, after at most as many calls as there are
\* models; its state changes only by Pending to TryingCandidate(1),
\* TryingCandidate(i) to Success or to TryingCandidate(i+1), and
\* TryingCandidate(N) to ExhaustedFallback, so a terminal state is never left
C15_OrchestratorTerminates ==
    /\ [](calls <= Len(MODEL_OPTIONS) /\ (pc = "await" => idx \in 1..Len(MODEL_OPTIONS)))
    /\ [][orchState' # orchState => orchStep(orchState, orchState')]_vars
    /\ (orchState[1] = "TryingCandidate"
          ~> orchState[1] \in {"Success", "ExhaustedFallback"})

\* the list was exhausted after one call to each model
C15_Witness ==
    /\ orchState = <<"ExhaustedFallback", 0>>
    /\ calls = Len(MODEL_OPTIONS)
    /\ usedCannedResponse

\* C16: whatever the candidates before it returned, a candidate whose call
\* returned and whose own response gives non-blank text (by the text accessor,
\* or by its parts when the accessor is absent or throws) is not classified as
\* failed, and the text extracted for it is that text
C16_ExtractionFromOwnResponse ==
    (Len(results) > 0 /\ yieldsText(results[Len(results)]))
    => /\ success
       /\ geminiResponse = textYielded(results[Len(results)])

\* C21: the generated text of every 200 response is non-empty and not blank: it
\* is the non-blank text that the successful model's own response gives, or the
\* canned text; what a failed model left in geminiResponse is never sent
C21_ResponseTextNonBlank ==
    \A i \in 1..Len(response) :
        response[i].status = 200
        => /\ ~Falsy(response[i].geminiResponse)
           /\ ~isBlank(response[i].geminiResponse)
           /\ \/ /\ response[i].usedCannedResponse
                 /\ response[i].geminiResponse = getCannedResponse
              \/ /\ ~response[i].usedCannedResponse
                 /\ success
                 /\ yieldsText(results[Len(results)])
                 /\ response[i].geminiResponse = textYielded(results[Len(results)])

\* a 200 response with the text of the second model, sent after the first model
\* had left a blank in geminiResponse
C21_Witness ==
    /\ pc = "done"
    /\ Len(results) = 2
    /\ ~results[1].threw
    /\ responseAfter(Undefined, results[1]) = Blank
    /\ Len(response) = 1
    /\ response[1].status = 200
    /\ response[1].geminiResponse = TextB

\* the handler ended after the detection on the outcome of the model loop threw
FaultAfterValidation ==
    Finished /\ detectBrandMention(geminiResponse, brandName).thrown

\* C12: when a fault other than a candidate's failure occurs after the
\* validation, one response is sent, a 200 with success true, the canned text,
\* usedCannedResponse and errorOccurred true, and the mentioned and position that
\* the detection on the canned text gives for the request's brandName
C12_PipelineErrorRecovered ==
    FaultAfterValidation =>
        /\ Len(response) = 1
        /\ \E d \in {detectBrandMention(getCannedResponse, brandName)} :
              /\ ~d.thrown
              /\ response[1] = Payload(d, getCannedResponse, TRUE, TRUE)

\* the outcome of the model loop on the results rs of a request's own calls,
\* from the k-th on, current being geminiResponse before it
RECURSIVE loopOutcome(_, _, _)
loopOutcome(rs, k, current) ==
    IF k > Len(rs) THEN [text |-> getCannedResponse, canned |-> TRUE]
    ELSE IF ~candidateFails(current, rs[k])
    THEN [text |-> responseAfter(current, rs[k]), canned |-> FALSE]
    ELSE loopOutcome(rs, k + 1, responseAfter(current, rs[k]))

\* what a request that has ended was sent is what its own prompt, brandName and
\* results give
ownResponse(f) ==
    IF invalid(f.prompt, f.brandName) THEN f.response = <<BadRequest>>
    ELSE \E o \in {loopOutcome(f.results, 1, Undefined)} :
            [pc |-> f.pc, response |-> f.response]
                \in responsesTo(o.text, o.canned, f.brandName)

\* C19: however the steps of the requests interleave at their awaits, the
\* response of each request is the one that its own prompt, brandName and the
\* results of its own calls give, and a step of one request changes no local of
\* another
C19_RequestsIndependent ==
    /\ [](\A q \in DOMAIN reqs :
            reqs[q].pc \in {"done", "rejected"} => ownResponse(reqs[q]))
    /\ [][\A q \in DOMAIN reqs : \A p \in DOMAIN reqs \ {q} :
             reqs'[q] # reqs[q] => reqs'[p] = reqs[p]]_vars

\* two requests ran side by side: one ended with the canned text, the other with
\* the text of its second model
C19_Witness ==
    /\ DOMAIN reqs # {}
    /\ reqs[1].pc = "done"
    /\ reqs[1].usedCannedResponse
    /\ reqs[2].pc = "done"
    /\ reqs[2].success
    /\ Len(reqs[2].results) = 2

----------------------------------------------------------------------------
(* Properties of the startup                                               *)

\* the key is missing, empty or blank, or still the placeholder
keyUnusable(key) ==
    key = Undefined \/ isBlank(key) \/ key = Placeholder

\* C13: a process started with a missing, empty, blank or placeholder key never
\* listens and never serves a request: it is starting or has exited
C13_NoServingWithoutKey ==
    keyUnusable(apiKey) => (proc \in {"starting", "exited"} /\ healthServed = 0)

----------------------------------------------------------------------------
(* Properties of detectBrandMention                                        *)

\* the direct call was made with a text and a brand name that pass the guard
CalledNonEmpty ==
    dPc = "done" /\ ~Falsy(dText) /\ ~Falsy(dBrand)

IsDelimiter(c) ==
    c \in {".", "\n"}

\* the number of segments of text
segmentCount(text) ==
    1 + Cardinality({i \in 1..Len(text) : IsDelimiter(text[i])})

\* the 1-based index of the segment that starts at or holds offset k (0-based)
segmentAt(text, k) ==
    1 + Cardinality({i \in 1..k : IsDelimiter(text[i])})

\* word occurs in text at offset k (0-based), letter case aside, within one segment
occursAt(text, word, k) ==
    /\ k + Len(word) <= Len(text)
    /\ \A i \in 1..Len(word) :
          /\ ~IsDelimiter(text[k + i])
          /\ toLowerChar(text[k + i]) = toLowerChar(word[i])

\* the segments of text that hold the trimmed brand name as a substring
exactSegments(text, brand) ==
    {segmentAt(text, k) : k \in {j \in 0..Len(text) : occursAt(text, trim(brand), j)}}

\* C5: when some segment of a non-empty text holds the trimmed non-empty brand
\* name as a case-insensitive substring, the result is mentioned with the index
\* of the first such segment
C5_ExactSubstringFound ==
    (CalledNonEmpty /\ exactSegments(dText, dBrand) # {})
    => dResult = Returned(TRUE, SetMin(exactSegments(dText, dBrand)))

\* a brand name in another case and with spaces around it, found in a later segment
C5_Witness ==
    /\ CalledNonEmpty
    /\ dBrand = <<" ", "A", "c", "m", "e", " ">>
    /\ exactSegments(dText, dBrand) # {}
    /\ SetMin(exactSegments(dText, dBrand)) = 3
    /\ dResult = Returned(TRUE, 3)

\* the offsets after offset k that any number of spaces, hyphens and underscores
\* lead to
afterSeparators(text, k) ==
    {e \in k..Len(text) : \A i \in (k + 1)..e : text[i] \in {" ", "-", "_"}}

\* the words from words[w] on occur in text from offset k on, in order, with
\* nothing but spaces, hyphens and underscores between them
RECURSIVE wordsOccurAt(_, _, _, _)
wordsOccurAt(text, words, w, k) ==
    /\ occursAt(text, words[w], k)
    /\ \/ w = Len(words)
       \/ \E e \in afterSeparators(text, k + Len(words[w])) :
             wordsOccurAt(text, words, w + 1, e)

\* the segments of text that hold the words of the brand name that way
looseSegments(text, brand) ==
    {segmentAt(text, k) :
        k \in {j \in 0..Len(text) :
                 wordsOccurAt(text, splitWhitespace(trim(toLowerCase(brand))), 1, j)}}

\* some whitespace-delimited word of the text passes the partial-word test
someWordPasses(text, brand) ==
    \E w \in 1..Len(splitWhitespace(toLowerCase(text))) :
        partialWordHit(stripNonAlnum(splitWhitespace(toLowerCase(text))[w]),
                       stripNonAlnum(trim(toLowerCase(brand))))

\* C6: when no segment holds the brand name, no segment matches the
\* loose-punctuation pattern and no word passes the partial-word test, the
\* result is {mentioned: false, position: null}
C6_NoMatchNotMentioned ==
    (/\ CalledNonEmpty
     /\ exactSegments(dText, dBrand) = {}
     /\ looseSegments(dText, dBrand) = {}
     /\ \A i \in 1..Len(splitSegments(dText)) :
           ~(/\ RegExp(splitWhitespace(trim(toLowerCase(dBrand)))).ok
             /\ regexTest(RegExp(splitWhitespace(trim(toLowerCase(dBrand)))),
                          splitSegments(dText)[i]))
     /\ ~someWordPasses(dText, dBrand))
    => dResult = NotMentioned

\* C7: with an empty or absent text or brand name the result is
\* {mentioned: false, position: null} and nothing is thrown, whatever the other
\* argument is
C7_EmptyArgumentNotMentioned ==
    (dPc = "done" /\ (dText \in {Undefined, <<>>} \/ dBrand \in {Undefined, <<>>}))
    => dResult = NotMentioned

\* an empty brand name with a text that every other brand name would be looked up in
C7_Witness ==
    /\ dPc = "done"
    /\ dBrand = <<>>
    /\ dText = <<"A", "c", "m", "e">>
    /\ dResult = NotMentioned

\* position is null exactly when mentioned is false, and else within 1..count
wellFormed(mentioned, position, count) ==
    IF mentioned THEN position \in 1..count ELSE position = NullPosition

\* C8: whenever detectBrandMention returns, and in every 200 response, position
\* is null exactly when mentioned is false ("No"), and is otherwise at least 1 and
\* at most the number of segments of the text
C8_PositionIffMentioned ==
    /\ (dPc = "done" /\ ~dResult.thrown)
       => wellFormed(dResult.mentioned, dResult.position,
                     IF Falsy(dText) THEN 0 ELSE segmentCount(dText))
    /\ \A i \in 1..Len(response) :
          response[i].status = 200
          => /\ response[i].mentioned \in {"Yes", "No"}
             /\ wellFormed(response[i].mentioned = "Yes", response[i].position,
                           segmentCount(response[i].geminiResponse))

\* a mention in the last of several segments
C8_Witness ==
    /\ CalledNonEmpty
    /\ segmentCount(dText) = 3
    /\ dResult = Returned(TRUE, 3)

\* C9: for a non-empty text and a non-empty brand name detectBrandMention throws
\* nothing
C9_NeverThrows ==
    CalledNonEmpty => ~dResult.thrown

\* C10: when no segment holds the brand name and some segment holds its words in
\* order with only spaces, hyphens and underscores between them, the result is
\* mentioned with the index of the first such segment
C10_LoosePunctuationFound ==
    (/\ CalledNonEmpty
     /\ exactSegments(dText, dBrand) = {}
     /\ looseSegments(dText, dBrand) # {})
    => dResult = Returned(TRUE, SetMin(looseSegments(dText, dBrand)))

\* passes 1 and 2 ran and found nothing
passesOneAndTwoFindNothing(text, brand) ==
    /\ exactSegments(text, brand) = {}
    /\ RegExp(splitWhitespace(trim(toLowerCase(brand)))).ok
    /\ loosePass(splitSegments(text),
                 RegExp(splitWhitespace(trim(toLowerCase(brand))))) = -1

\* C17: when passes 1 and 2 find nothing and some whitespace-delimited word of
\* the text passes the partial-word test, the result is mentioned with the index
\* of a segment, wherever the '.' and newline delimiters of the text are
C17_PartialWordHitMentioned ==
    (/\ CalledNonEmpty
     /\ passesOneAndTwoFindNothing(dText, dBrand)
     /\ someWordPasses(dText, dBrand))
    => /\ ~dResult.thrown
       /\ dResult.mentioned
       /\ dResult.position \in 1..segmentCount(dText)

\* the first whitespace-delimited word of the lower-cased text that passes the
\* partial-word test, as it stands in the text
matchedWord(text, brand) ==
    LET words == splitWhitespace(toLowerCase(text))
        hits == {w \in 1..Len(words) :
                   partialWordHit(stripNonAlnum(words[w]),
                                  stripNonAlnum(trim(toLowerCase(brand))))}
    IN  words[SetMin(hits)]

\* the smallest j (0-based) such that the lengths of the segments up to it sum
\* to at least the index of the matched word in the lower-cased text, -1 if none
ownerOfMatchedWord(text, brand) ==
    segmentOfIndex(splitSegments(text),
                   indexOf(toLowerCase(text), matchedWord(text, brand)))

\* C18: on a partial-word hit the position is the 1-based index of the first
\* segment up to which the segment lengths sum to at least the index, in the
\* lower-cased text, of the matched word as it stands in the text
C18_PositionFromOriginalWord ==
    (/\ CalledNonEmpty
     /\ passesOneAndTwoFindNothing(dText, dBrand)
     /\ someWordPasses(dText, dBrand)
     /\ ownerOfMatchedWord(dText, dBrand) # -1)
    => dResult = Returned(TRUE, ownerOfMatchedWord(dText, dBrand) + 1)

toUpperChar(c) ==
    IF \E u \in DOMAIN LowerMap : LowerMap[u] = c
    THEN CHOOSE u \in DOMAIN LowerMap : LowerMap[u] = c
    ELSE c

toUpperCase(s) ==
    [i \in 1..Len(s) |-> toUpperChar(s[i])]

\* the same name in other letter case, and with whitespace before and after it
brandVariants(brand) ==
    {toUpperCase(brand), <<" ">> \o toLowerCase(brand) \o <<" ", "\n">>}

\* the same text in other letter case
textVariants(text) ==
    {toUpperCase(text), toLowerCase(text)}

\* C20: for a non-empty text and brand name, the result is the same for the brand
\* name in another letter case or with whitespace added around it, and for the
\* text in another letter case, whichever pass decides
C20_CaseAndTrimInvariant ==
    CalledNonEmpty =>
        /\ \A b \in brandVariants(dBrand) : detectBrandMention(dText, b) = dResult
        /\ \A t \in textVariants(dText) : detectBrandMention(t, dBrand) = dResult

\* a name in mixed case and with two spaces, found by the loose-punctuation pass
C20_Witness ==
    /\ CalledNonEmpty
    /\ dText = Acme \o <<"-">> \o corp
    /\ dBrand = <<"A", "c", "m", "e", " ", " ", "C", "o", "r", "p">>
    /\ exactSegments(dText, dBrand) = {}
    /\ dResult = Returned(TRUE, 1)

\* C22: a brand name of whitespace only is treated like an empty one: with any
\* non-empty text the result is {mentioned: false, position: null}, so a mention
\* is reported only for a brand name that is non-empty after trimming
C22_BlankBrandNotMentioned ==
    /\ (CalledNonEmpty /\ isBlank(dBrand)) => dResult = NotMentioned
    /\ (CalledNonEmpty /\ dResult.mentioned) => trim(dBrand) # <<>>

----------------------------------------------------------------------------
(* Properties of the page                                                  *)

\* C23: however a Clear interleaves with a request in flight, a result that was
\* listed when clearResults ran is never listed again: when the response
\* arrives the list holds only the new result and those added after the Clear
C23_ClearedResultsStayCleared ==
    \A i \in 1..Len(fResults) : fResults[i] \notin fCleared

=============================================================================
